---- MODULE Spec2Model ----
(***************************************************************************)
(* A model of embedded-text: the tokenizer (src/src/parser.rs) and the     *)
(* text box style builder (src/src/style/builder.rs) and the pixel         *)
(* iterators (src/src/rendering/mod.rs, src/src/alignment/right.rs).       *)
(*                                                                         *)
(* A text is a sequence of characters drawn from Alphabet, one             *)
(* representative per class the parser distinguishes.  A &str slice is a   *)
(* sequence of UTF-8 code units <<c, k>> (the k-th byte of character c),   *)
(* so that byte-offset slicing (get_unchecked) is modelled by what it      *)
(* does, not as a character operation.                                     *)
(***************************************************************************)
EXTENDS Naturals, Integers, Sequences, FiniteSets, TLC

\* Longest input text explored.
MaxLen == 3

\* Characters: an ASCII letter, an ASCII punctuation character, two ordinary
\* whitespace characters, '\n', '\r', U+00A0, U+200B and a 4-byte scalar.
LETTER == "a"
PUNCT == ","
SPACE == "SP"
TAB == "TAB"
LF == "LF"
CR == "CR"
NBSP == "NBSP"
ZWSP == "ZWSP"
EMOJI == "EMOJI"

Alphabet == {LETTER, PUNCT, SPACE, TAB, LF, CR, NBSP, ZWSP, EMOJI}

\* char::len_utf8
len_utf8(c) ==
    CASE c = NBSP -> 2
      [] c = ZWSP -> 3
      [] c = EMOJI -> 4
      [] OTHER -> 1

\* char::is_whitespace (Unicode White_Space; U+200B does not have it)
is_whitespace(c) == c \in {SPACE, TAB, LF, CR, NBSP}

\* char::is_ascii_punctuation
is_ascii_punctuation(c) == c = PUNCT

\* str::len of the text a Chars iterator still holds, in bytes
RECURSIVE StrLen(_)
StrLen(s) == IF s = <<>> THEN 0 ELSE len_utf8(Head(s)) + StrLen(Tail(s))

\* The UTF-8 code units of a character sequence
RECURSIVE Utf8(_)
Utf8(s) ==
    IF s = <<>> THEN <<>>
    ELSE [k \in 1..len_utf8(Head(s)) |-> <<Head(s), k>>] \o Utf8(Tail(s))

\* str::get_unchecked(lo..hi): the bytes lo..hi-1 (0-based), no boundary check
get_unchecked(string, lo, hi) == SubSeq(Utf8(string), lo + 1, hi)

\* Token
None == [kind |-> "None", len |-> 0, word |-> <<>>]
NewLine == [kind |-> "NewLine", len |-> 0, word |-> <<>>]
CarriageReturn == [kind |-> "CarriageReturn", len |-> 0, word |-> <<>>]
Whitespace(n) == [kind |-> "Whitespace", len |-> n, word |-> <<>>]
Word(bytes) == [kind |-> "Word", len |-> 0, word |-> bytes]

\* is_word_char without the non-breaking-space exception
is_word_char_nbsp_is_space(c) == ~is_whitespace(c) /\ c # ZWSP

\* is_word_char without the zero-width-space exclusion
is_word_char_zwsp_in_word(c) == ~is_whitespace(c) \/ c = NBSP

\* Parser::is_word_char
is_word_char(c) == (~is_whitespace(c) \/ c = NBSP) /\ c # ZWSP

\* is_space_char without the trailing `|| c == '\u{200B}'`
is_space_char_zwsp_ends_run(c) ==
    is_whitespace(c) /\ c \notin {LF, CR, NBSP, ZWSP}

\* is_space_char without '\n' and '\r' in the exclusion list
is_space_char_absorbs_breaks(c) ==
    (is_whitespace(c) /\ c \notin {NBSP, ZWSP}) \/ c = ZWSP

\* Parser::is_space_char
is_space_char(c) ==
    (is_whitespace(c) /\ c \notin {LF, CR, NBSP, ZWSP}) \/ c = ZWSP

\* is_breaking_char that recognises no character
is_breaking_char_never(c) == FALSE

\* is_breaking_char that also breaks at a multi-byte symbol
is_breaking_char_multibyte(c) == c \in {PUNCT, EMOJI}

\* Parser::is_breaking_char
is_breaking_char(c) == is_ascii_punctuation(c)

\* The word loop advancing the parser past the character that ends the word
RECURSIVE WordLoopEatsTerminator(_, _, _)
WordLoopEatsTerminator(string, inner, iter) ==
    IF iter = <<>>
    THEN [token |-> Word(Utf8(string)), inner |-> <<>>]
    ELSE LET c == Head(iter)
             iter2 == Tail(iter)
             end_token == IF is_word_char(c) THEN is_breaking_char(c) ELSE TRUE
         IN  IF end_token
             THEN LET offset == StrLen(string) - StrLen(iter2)
                  IN  [token |-> Word(get_unchecked(string, 0, offset)),
                       inner |-> iter2]
             ELSE WordLoopEatsTerminator(string, iter2, iter2)

\* The inner `while let` of the word branch: string is the text at the start
\* of the token, inner the parser's iterator, iter the look-ahead clone.
RECURSIVE WordLoop(_, _, _)
WordLoop(string, inner, iter) ==
    IF iter = <<>>
    THEN [token |-> Word(Utf8(string)), inner |-> <<>>]
    ELSE LET c == Head(iter)
             iter2 == Tail(iter)
             inner2 == IF is_word_char(c) THEN iter2 ELSE inner
             end_token == IF is_word_char(c) THEN is_breaking_char(c) ELSE TRUE
         IN  IF end_token
             THEN LET offset == StrLen(string) - StrLen(inner2)
                  IN  [token |-> Word(get_unchecked(string, 0, offset)),
                       inner |-> inner2]
             ELSE WordLoop(string, inner2, iter2)

\* The whitespace loop without the `c != '\u{200B}'` test around `len += 1`
RECURSIVE SpaceLoopCountsZwsp(_, _, _)
SpaceLoopCountsZwsp(len, inner, iter) ==
    IF iter = <<>>
    THEN [token |-> Whitespace(len), inner |-> <<>>]
    ELSE LET c == Head(iter)
             iter2 == Tail(iter)
         IN  IF is_space_char(c)
             THEN SpaceLoopCountsZwsp(len + 1, iter2, iter2)
             ELSE [token |-> Whitespace(len), inner |-> inner]

\* The inner `while let` of the whitespace branch.
RECURSIVE SpaceLoop(_, _, _)
SpaceLoop(len, inner, iter) ==
    IF iter = <<>>
    THEN [token |-> Whitespace(len), inner |-> <<>>]
    ELSE LET c == Head(iter)
             iter2 == Tail(iter)
         IN  IF is_space_char(c)
             THEN SpaceLoop(IF c # ZWSP THEN len + 1 ELSE len, iter2, iter2)
             ELSE [token |-> Whitespace(len), inner |-> inner]

\* next() without the early break for a leading punctuation character
RECURSIVE ParserNextNoCarveOut(_)
ParserNextNoCarveOut(inner) ==
    IF inner = <<>>
    THEN [token |-> None, inner |-> inner]
    ELSE LET string == inner
             c == Head(inner)
             inner1 == Tail(inner)
         IN  IF is_word_char(c)
             THEN WordLoop(string, inner1, inner1)
             ELSE CASE c = LF -> [token |-> NewLine, inner |-> inner1]
                    [] c = CR -> [token |-> CarriageReturn, inner |-> inner1]
                    [] c = ZWSP -> ParserNextNoCarveOut(inner1)
                    [] OTHER -> SpaceLoop(1, inner1, inner1)

\* next() returning None as soon as it meets a zero-width space
RECURSIVE ParserNextStopsAtZwsp(_)
ParserNextStopsAtZwsp(inner) ==
    IF inner = <<>>
    THEN [token |-> None, inner |-> inner]
    ELSE LET string == inner
             c == Head(inner)
             inner1 == Tail(inner)
         IN  IF is_word_char(c)
             THEN IF is_breaking_char(c)
                  THEN [token |-> Word(get_unchecked(string, 0, 1)),
                        inner |-> inner1]
                  ELSE WordLoop(string, inner1, inner1)
             ELSE CASE c = LF -> [token |-> NewLine, inner |-> inner1]
                    [] c = CR -> [token |-> CarriageReturn, inner |-> inner1]
                    [] c = ZWSP -> [token |-> None, inner |-> inner1]
                    [] OTHER -> SpaceLoop(1, inner1, inner1)

\* next() without the `'\u{200B}' => {}` arm: U+200B falls into the
\* whitespace arm
RECURSIVE ParserNextZwspStartsRun(_)
ParserNextZwspStartsRun(inner) ==
    IF inner = <<>>
    THEN [token |-> None, inner |-> inner]
    ELSE LET string == inner
             c == Head(inner)
             inner1 == Tail(inner)
         IN  IF is_word_char(c)
             THEN IF is_breaking_char(c)
                  THEN [token |-> Word(get_unchecked(string, 0, 1)),
                        inner |-> inner1]
                  ELSE WordLoop(string, inner1, inner1)
             ELSE CASE c = LF -> [token |-> NewLine, inner |-> inner1]
                    [] c = CR -> [token |-> CarriageReturn, inner |-> inner1]
                    [] OTHER -> SpaceLoop(1, inner1, inner1)

\* next() that scans trailing zero-width spaces on a clone and returns None
\* without consuming them
RECURSIVE ParserNextRewinds(_)
ParserNextRewinds(inner) ==
    IF inner = <<>>
    THEN [token |-> None, inner |-> inner]
    ELSE LET string == inner
             c == Head(inner)
             inner1 == Tail(inner)
         IN  IF is_word_char(c)
             THEN IF is_breaking_char(c)
                  THEN [token |-> Word(get_unchecked(string, 0, 1)),
                        inner |-> inner1]
                  ELSE WordLoop(string, inner1, inner1)
             ELSE CASE c = LF -> [token |-> NewLine, inner |-> inner1]
                    [] c = CR -> [token |-> CarriageReturn, inner |-> inner1]
                    [] c = ZWSP ->
                         LET r == ParserNextRewinds(inner1)
                         IN  IF r.token = None
                             THEN [token |-> None, inner |-> inner]
                             ELSE r
                    [] OTHER -> SpaceLoop(1, inner1, inner1)

\* Iterator::next for Parser: the returned token and the iterator afterwards.
RECURSIVE ParserNext(_)
ParserNext(inner) ==
    IF inner = <<>>
    THEN [token |-> None, inner |-> inner]
    ELSE LET string == inner
             c == Head(inner)
             inner1 == Tail(inner)
         IN  IF is_word_char(c)
             THEN IF is_breaking_char(c)
                  THEN [token |-> Word(get_unchecked(string, 0, 1)),
                        inner |-> inner1]
                  ELSE WordLoop(string, inner1, inner1)
             ELSE CASE c = LF -> [token |-> NewLine, inner |-> inner1]
                    [] c = CR -> [token |-> CarriageReturn, inner |-> inner1]
                    [] c = ZWSP -> ParserNext(inner1)
                    [] OTHER -> SpaceLoop(1, inner1, inner1)

\* peek() calling next() on the parser itself instead of a clone
ParserPeekAdvances(inner) ==
    [token |-> ParserNext(inner).token, inner |-> ParserNext(inner).inner]

\* Parser::peek: next() on a clone; the parser itself is left as it was.
ParserPeek(inner) ==
    LET clone == inner
    IN  [token |-> ParserNext(clone).token, inner |-> inner]

\* Parser::is_empty
is_empty(inner) == StrLen(inner) = 0

\* Parser::remaining
remaining(inner) == StrLen(inner)

\* Parser::parse
parse(t) == t


(***************************************************************************)
(* The text box style builder (src/src/style/builder.rs).  A colour option *)
(* is a colour or NoColor (Option::None).                                  *)
(***************************************************************************)
NoColor == "NoColor"
Colors == {"On", "Off"}
Fonts == {"Font6x8", "Font6x6"}
LeftAligned == "LeftAligned"
RightAligned == "RightAligned"
Alignments == {LeftAligned, RightAligned, "CenterAligned"}

\* embedded_graphics::style::TextStyle values
TextStyles ==
    [font : Fonts, text_color : Colors \cup {NoColor},
     background_color : Colors \cup {NoColor}]

\* embedded_graphics TextStyleBuilder::new / text_color / background_color / build
TextStyleBuilder_new(font) ==
    [font |-> font, text_color |-> NoColor, background_color |-> NoColor]
TextStyleBuilder_text_color(b, color) == [b EXCEPT !.text_color = color]
TextStyleBuilder_background_color(b, color) == [b EXCEPT !.background_color = color]
TextStyleBuilder_build(b) == b

\* TextBoxStyleBuilder::new
TextBoxStyleBuilder_new(font) ==
    [text_style_builder |-> TextStyleBuilder_new(font), alignment |-> LeftAligned]

\* text_color that rebuilds the inner builder from the font alone
text_color_drops_background(self, color) ==
    [self EXCEPT !.text_style_builder =
        TextStyleBuilder_text_color(TextStyleBuilder_new(@.font), color)]

\* TextBoxStyleBuilder::text_color
text_color(self, color) ==
    [self EXCEPT !.text_style_builder = TextStyleBuilder_text_color(@, color)]

\* TextBoxStyleBuilder::background_color
background_color(self, color) ==
    [self EXCEPT !.text_style_builder = TextStyleBuilder_background_color(@, color)]

\* TextBoxStyleBuilder::text_style
text_style(self, ts) ==
    LET b0 == self.text_style_builder
        b1 == IF ts.background_color # NoColor
              THEN TextStyleBuilder_background_color(b0, ts.background_color)
              ELSE b0
        b2 == IF ts.text_color # NoColor
              THEN TextStyleBuilder_text_color(b1, ts.text_color)
              ELSE b1
    IN  [self EXCEPT !.text_style_builder = b2]

\* TextBoxStyleBuilder::alignment
alignment(self, a) ==
    [text_style_builder |-> self.text_style_builder, alignment |-> a]

\* TextBoxStyleBuilder::build
build(self) ==
    [text_style |-> TextStyleBuilder_build(self.text_style_builder),
     alignment |-> self.alignment]

\* built holds the style build() returned, or nothing before build()
NotBuilt == <<>>

RECURSIVE SeqsUpTo(_)
SeqsUpTo(n) ==
    IF n = 0 THEN {<<>>}
    ELSE LET S == SeqsUpTo(n - 1)
         IN  S \cup {Append(s, c) : s \in {x \in S : Len(x) = n - 1}, c \in Alphabet}

Texts == SeqsUpTo(MaxLen)

(***************************************************************************)
(* Text boxes and pixel iterators (src/src/rendering/mod.rs,               *)
(* src/src/alignment/right.rs).  A rectangle is its top-left corner and    *)
(* its size.  The glyph rasterizer is outside the repository: a character  *)
(* is drawn as one pixel at the cursor, which then advances by the         *)
(* character width.                                                        *)
(***************************************************************************)
\* Font6x8::CHARACTER_SIZE
CharWidth == 6
CharHeight == 8

RenderAlphabet == {LETTER, SPACE, LF}
RenderTexts == {t \in Texts : \A i \in 1..Len(t) : t[i] \in RenderAlphabet}
Origins == {[x |-> 0, y |-> 0], [x |-> 3, y |-> 2]}
Widths == {4, 6, 12}
Heights == {0, 16}
HeightModes == {"Exact", "FitToText"}
Iterators == {1, 2}

Rectangle(top_left, width, height) ==
    [top_left |-> top_left, size |-> [width |-> width, height |-> height]]

\* Width in pixels of a token on a line
TokenWidth(tok) ==
    CASE tok.kind = "Word" -> Len(SelectSeq(tok.word, LAMBDA u : u[2] = 1)) * CharWidth
      [] tok.kind = "Whitespace" -> tok.len * CharWidth
      [] OTHER -> 0

\* Line layout: the number of lines the rest of the text takes when the
\* current line holds x pixels and is line number `lines`.
RECURSIVE LayoutLines(_, _, _, _)
LayoutLines(parser, x, lines, width) ==
    LET r == ParserNext(parser)
        w == TokenWidth(r.token)
    IN  CASE r.token.kind = "None" -> lines
          [] r.token.kind = "NewLine" -> LayoutLines(r.inner, 0, lines + 1, width)
          [] r.token.kind = "CarriageReturn" -> LayoutLines(r.inner, x, lines, width)
          [] r.token.kind = "Word" ->
               IF x > 0 /\ x + w > width
               THEN LayoutLines(r.inner, w, lines + 1, width)
               ELSE LayoutLines(r.inner, x + w, lines, width)
          [] OTHER ->
               IF x + w > width
               THEN LayoutLines(r.inner, 0, lines + 1, width)
               ELSE LayoutLines(r.inner, x + w, lines, width)

\* The measured line count of a text in a rectangle of the given width
MeasureLines(t, width) ==
    IF t = <<>> THEN 0 ELSE LayoutLines(parse(t), 0, 1, width)

\* FitToText that only grows the rectangle, keeping a larger supplied height
into_styled_keeps_larger(text_box, style) ==
    LET b == text_box.bounds
        h == MeasureLines(text_box.text, b.size.width) * CharHeight
    IN  [text_box |->
            IF style.height_mode = "FitToText"
            THEN [text_box EXCEPT !.bounds.size.height =
                     IF h > b.size.height THEN h ELSE b.size.height]
            ELSE text_box,
         style |-> style]

\* TextBox::into_styled: the height mode is resolved here
into_styled(text_box, style) ==
    LET b == text_box.bounds
        h == MeasureLines(text_box.text, b.size.width) * CharHeight
    IN  [text_box |->
            IF style.height_mode = "FitToText"
            THEN [text_box EXCEPT !.bounds.size.height = h]
            ELSE text_box,
         style |-> style]

\* Cursor::new
Cursor_new(bounds) == [position |-> bounds.top_left, bounds |-> bounds]

\* TopAligned::apply_vertical_alignment
apply_vertical_alignment(cursor, styled_box) == cursor

\* StateFactory::create_state
create_state(styled_box, cursor, parser) ==
    [cursor |-> cursor, parser |-> parser, word |-> <<>>]

\* new() with the cursor created for a rectangle at the origin
StyledTextBoxIterator_new_at_origin(styled_box) ==
    LET b == styled_box.text_box.bounds
        cursor0 == Cursor_new(Rectangle([x |-> 0, y |-> 0], b.size.width, b.size.height))
        cursor == apply_vertical_alignment(cursor0, styled_box)
    IN  [style |-> styled_box.style,
         state |-> create_state(styled_box, cursor, parse(styled_box.text_box.text))]

\* StyledTextBoxIterator::new
StyledTextBoxIterator_new(styled_box) ==
    LET cursor0 == Cursor_new(styled_box.text_box.bounds)
        cursor == apply_vertical_alignment(cursor0, styled_box)
    IN  [style |-> styled_box.style,
         state |-> create_state(styled_box, cursor, parse(styled_box.text_box.text))]

\* Cursor::in_display_area, Cursor::new_line, Cursor::advance, Cursor::fits_in_line
in_display_area(cursor) ==
    cursor.position.y < cursor.bounds.top_left.y + cursor.bounds.size.height
new_line(cursor) ==
    [cursor EXCEPT !.position = [x |-> cursor.bounds.top_left.x, y |-> @.y + CharHeight]]
advance(cursor, w) == [cursor EXCEPT !.position.x = @ + w]
fits_in_line(cursor, w) ==
    cursor.position.x + w <= cursor.bounds.top_left.x + cursor.bounds.size.width

NoItem == <<>>
Pixel(cursor, c) == <<[x |-> cursor.position.x, y |-> cursor.position.y, c |-> c]>>

\* Iterator::next of the left-aligned pixel iterator: the item and the
\* state afterwards.
RECURSIVE LeftAligned_next(_)
LeftAligned_next(st) ==
    IF ~in_display_area(st.cursor)
    THEN [item |-> NoItem, state |-> st]
    ELSE IF st.word # <<>>
    THEN [item |-> Pixel(st.cursor, Head(st.word)),
          state |-> [st EXCEPT !.cursor = advance(@, CharWidth), !.word = Tail(@)]]
    ELSE LET r == ParserNext(st.parser)
             w == TokenWidth(r.token)
             atStart == st.cursor.position.x = st.cursor.bounds.top_left.x
         IN  CASE r.token.kind = "None" ->
                    [item |-> NoItem, state |-> [st EXCEPT !.parser = r.inner]]
               [] r.token.kind = "NewLine" ->
                    LeftAligned_next([st EXCEPT !.parser = r.inner,
                                                !.cursor = new_line(@)])
               [] r.token.kind = "CarriageReturn" ->
                    LeftAligned_next([st EXCEPT !.parser = r.inner])
               [] r.token.kind = "Word" ->
                    LeftAligned_next(
                        [st EXCEPT !.parser = r.inner,
                                   !.cursor = IF fits_in_line(@, w) \/ atStart
                                              THEN @ ELSE new_line(@),
                                   !.word = SelectSeq(r.token.word, LAMBDA u : u[2] = 1)])
               [] OTHER ->
                    LeftAligned_next(
                        [st EXCEPT !.parser = r.inner,
                                   !.cursor = IF fits_in_line(@, w)
                                              THEN advance(@, w) ELSE new_line(@)])

\* Iterator::next of the right-aligned pixel iterator
RightAligned_next(st) == [item |-> NoItem, state |-> st]

\* Iterator::next of a pixel iterator, by its alignment
PixelIterator_next(it) ==
    IF it.style.alignment = RightAligned
    THEN RightAligned_next(it.state)
    ELSE LeftAligned_next(it.state)

VARIABLES
    text,      \* the input given to Parser::parse
    inner,     \* Parser.inner: the characters not yet consumed
    tokens,    \* the tokens next() has returned so far (as collect() would)
    spans,     \* for each emitted token, the character offsets its call consumed
    op,        \* the last call made: "parse", "next" or "peek"
    prevOp,    \* the call before it
    ret,       \* what the last next() or peek() returned
    prevRet,   \* what the call before it returned
    builder,   \* the TextBoxStyleBuilder (moved from call to call)
    bcall,     \* the last builder call and its argument
    bprev,     \* the builder call before it
    lastSet,   \* the value each setter was last called with, the font of new()
    built,     \* what build() returned, NotBuilt before
    supplied,  \* the TextBox and style handed to into_styled
    styled,    \* the StyledTextBox into_styled returned
    iters,     \* the pixel iterators built from styled: <<>> before new()
    yielded,   \* the pixels each iterator has yielded so far
    pulls      \* per iterator: "absent", "fresh", "some" or "none" (last pull)

parserVars == <<text, inner, tokens, spans, op, prevOp, ret, prevRet>>
builderVars == <<builder, bcall, bprev, lastSet, built>>
renderVars == <<supplied, styled, iters, yielded, pulls>>
vars == <<parserVars, builderVars, renderVars>>

\* Number of characters consumed so far
Offset(rest) == Len(text) - Len(rest)

\* TextBoxStyleBuilder::new(font), no setter called yet
BuilderStart(font) ==
    /\ builder = TextBoxStyleBuilder_new(font)
    /\ bcall = [name |-> "new", arg |-> font]
    /\ bprev = [name |-> "new", arg |-> font]
    /\ lastSet = [font |-> font, text_color |-> NoColor,
                  background_color |-> NoColor, alignment |-> LeftAligned,
                  text_style_called |-> FALSE]
    /\ built = NotBuilt

\* A text box styled by into_styled, no pixel iterator built yet
RenderStart(t, bounds, style) ==
    /\ supplied = [text_box |-> [text |-> t, bounds |-> bounds], style |-> style]
    /\ styled = into_styled(supplied.text_box, supplied.style)
    /\ iters = [i \in Iterators |-> <<>>]
    /\ yielded = [i \in Iterators |-> <<>>]
    /\ pulls = [i \in Iterators |-> "absent"]

RenderIdle ==
    RenderStart(<<>>, Rectangle([x |-> 0, y |-> 0], 6, 0),
                [alignment |-> LeftAligned, height_mode |-> "Exact"])

ParserIdle ==
    /\ text = <<>>
    /\ inner = parse(text)
    /\ tokens = <<>>
    /\ spans = <<>>
    /\ op = "parse"
    /\ prevOp = "parse"
    /\ ret = None
    /\ prevRet = None

Init ==
    /\ text \in Texts
    /\ inner = parse(text)
    /\ tokens = <<>>
    /\ spans = <<>>
    /\ op = "parse"
    /\ prevOp = "parse"
    /\ ret = None
    /\ prevRet = None
    /\ BuilderStart("Font6x8")
    /\ RenderIdle

\* A call of next()
Next_ ==
    LET r == ParserNext(inner)
    IN  /\ inner' = r.inner
        /\ ret' = r.token
        /\ tokens' = IF r.token = None THEN tokens ELSE Append(tokens, r.token)
        /\ spans' = IF r.token = None THEN spans
                    ELSE Append(spans, [from |-> Offset(inner), to |-> Offset(r.inner)])
        /\ op' = "next"
        /\ prevOp' = op
        /\ prevRet' = ret
        /\ UNCHANGED text
        /\ UNCHANGED <<builderVars, renderVars>>

\* A call of peek()
Peek ==
    LET r == ParserPeek(inner)
    IN  /\ inner' = r.inner
        /\ ret' = r.token
        /\ op' = "peek"
        /\ prevOp' = op
        /\ prevRet' = ret
        /\ UNCHANGED <<text, tokens, spans>>
        /\ UNCHANGED <<builderVars, renderVars>>

Next == Next_ \/ Peek

Spec == Init /\ [][Next]_vars

(***************************************************************************)
(* The builder: new(font), then setters in any order, then build().        *)
(***************************************************************************)
BuilderInit ==
    /\ ParserIdle
    /\ RenderIdle
    /\ \E font \in Fonts : BuilderStart(font)

Called(name, arg) ==
    /\ built = NotBuilt
    /\ bcall' = [name |-> name, arg |-> arg]
    /\ bprev' = bcall
    /\ UNCHANGED <<parserVars, renderVars>>

SetTextColor ==
    \E color \in Colors :
        /\ Called("text_color", color)
        /\ builder' = text_color(builder, color)
        /\ lastSet' = [lastSet EXCEPT !.text_color = color]
        /\ UNCHANGED built

SetBackgroundColor ==
    \E color \in Colors :
        /\ Called("background_color", color)
        /\ builder' = background_color(builder, color)
        /\ lastSet' = [lastSet EXCEPT !.background_color = color]
        /\ UNCHANGED built

\* text_style takes a TextStyle<C, F> of the builder's own font type
SetTextStyle ==
    \E ts \in TextStyles :
        /\ ts.font = builder.text_style_builder.font
        /\ Called("text_style", ts)
        /\ builder' = text_style(builder, ts)
        /\ lastSet' = [lastSet EXCEPT !.text_style_called = TRUE]
        /\ UNCHANGED built

SetAlignment ==
    \E a \in Alignments :
        /\ Called("alignment", a)
        /\ builder' = alignment(builder, a)
        /\ lastSet' = [lastSet EXCEPT !.alignment = a]
        /\ UNCHANGED built

Build ==
    /\ Called("build", "self")
    /\ built' = <<build(builder)>>
    /\ UNCHANGED <<builder, lastSet>>

BuilderNext ==
    SetTextColor \/ SetBackgroundColor \/ SetTextStyle \/ SetAlignment \/ Build

SpecBuilder == BuilderInit /\ [][BuilderNext]_vars

(***************************************************************************)
(* Rendering: a text box is styled once; pixel iterators are built from    *)
(* the styled text box and pulled in any interleaving.                     *)
(***************************************************************************)
RenderInit ==
    /\ ParserIdle
    /\ BuilderStart("Font6x8")
    /\ \E t \in RenderTexts, o \in Origins, w \in Widths, h \in Heights,
          a \in {LeftAligned, RightAligned}, hm \in HeightModes :
          RenderStart(t, Rectangle(o, w, h), [alignment |-> a, height_mode |-> hm])

\* StyledTextBoxIterator::new(&styled) for iterator i
NewIterator(i) ==
    /\ iters[i] = <<>>
    /\ iters' = [iters EXCEPT ![i] = <<StyledTextBoxIterator_new(styled)>>]
    /\ pulls' = [pulls EXCEPT ![i] = "fresh"]
    /\ UNCHANGED <<supplied, styled, yielded, parserVars, builderVars>>

\* One next() on iterator i
PullPixel(i) ==
    /\ iters[i] # <<>>
    /\ LET r == PixelIterator_next(iters[i][1])
       IN  /\ iters' = [iters EXCEPT ![i] = <<[@[1] EXCEPT !.state = r.state]>>]
           /\ yielded' = [yielded EXCEPT ![i] = @ \o r.item]
           /\ pulls' = [pulls EXCEPT ![i] = IF r.item = NoItem THEN "none" ELSE "some"]
    /\ UNCHANGED <<supplied, styled, parserVars, builderVars>>

RenderNext == \E i \in Iterators : NewIterator(i) \/ PullPixel(i)

SpecRender == RenderInit /\ [][RenderNext]_vars

(***************************************************************************)
(* Vocabulary of the properties.                                           *)
(***************************************************************************)
Consumed == Offset(inner)

\* The characters a &str slice decodes to: one per leading code unit.
IsLeadUnit(u) == u[2] = 1
WordChars(tok) ==
    LET lead == SelectSeq(tok.word, IsLeadUnit)
    IN  [j \in 1..Len(lead) |-> lead[j][1]]

\* The characters of the input the call that emitted token k consumed.
SpanOf(k) == (spans[k].from + 1)..spans[k].to

IsOrdinaryWhitespace(c) == is_whitespace(c) /\ c \notin {LF, CR, NBSP, ZWSP}

\* A character as the round trip sees it: which ordinary whitespace
\* character a counted position held is not recorded by Whitespace(n).
Blank(c) == IF IsOrdinaryWhitespace(c) THEN "WS" ELSE c

RECURSIVE StripZwsp(_)
StripZwsp(s) ==
    IF s = <<>> THEN <<>>
    ELSE IF Head(s) = ZWSP THEN StripZwsp(Tail(s))
    ELSE <<Blank(Head(s))>> \o StripZwsp(Tail(s))

WriteToken(tok) ==
    CASE tok.kind = "Word" -> [j \in 1..Len(WordChars(tok)) |-> Blank(WordChars(tok)[j])]
      [] tok.kind = "Whitespace" -> [j \in 1..tok.len |-> "WS"]
      [] tok.kind = "NewLine" -> <<LF>>
      [] tok.kind = "CarriageReturn" -> <<CR>>
      [] OTHER -> <<>>

RECURSIVE WriteTokens(_)
WriteTokens(ts) ==
    IF ts = <<>> THEN <<>> ELSE WriteToken(Head(ts)) \o WriteTokens(Tail(ts))

TokenLength(tok) ==
    CASE tok.kind = "Word" -> Len(WordChars(tok))
      [] tok.kind = "Whitespace" -> tok.len
      [] tok.kind = "NewLine" -> 1
      [] tok.kind = "CarriageReturn" -> 1
      [] OTHER -> 0

RECURSIVE SumLengths(_)
SumLengths(ts) ==
    IF ts = <<>> THEN 0 ELSE TokenLength(Head(ts)) + SumLengths(Tail(ts))

ConsumedText == SubSeq(text, 1, Consumed)

\* C1: a peek() leaves the parser as it was (same remaining(), same
\* is_empty()), and the next() that follows a peek() returns the token the
\* peek() returned, None included.
PeekThenNextAgree ==
    [][ /\ (op' = "peek" =>
              /\ inner' = inner
              /\ remaining(inner') = remaining(inner)
              /\ is_empty(inner') = is_empty(inner))
        /\ ((op = "peek" /\ op' = "next") => ret' = ret) ]_vars

PeekThenNextWitness ==
    /\ op = "next"
    /\ prevOp = "peek"
    /\ ret = prevRet
    /\ ret.kind = "Word"
    /\ inner # <<>>

\* C2: writing the emitted tokens out in order (a Word as its text,
\* Whitespace(n) as n whitespace characters, NewLine as '\n', CarriageReturn
\* as '\r') gives the consumed input without its zero-width spaces, up to
\* which whitespace character a counted position holds; the summed token
\* lengths are the number of consumed characters other than U+200B.
TokenRoundTrip ==
    /\ WriteTokens(tokens) = StripZwsp(ConsumedText)
    /\ SumLengths(tokens) = Cardinality({i \in 1..Consumed : text[i] # ZWSP})
    /\ (ret = None /\ op = "next") => Consumed = Len(text)

TokenRoundTripWitness ==
    /\ op = "next"
    /\ ret = None
    /\ text = <<LETTER, ZWSP, TAB>>
    /\ tokens = <<Word(Utf8(<<LETTER>>)), Whitespace(1)>>

\* C3 (as the code has it): every ASCII punctuation character of the
\* consumed input is the last character of a Word token; that Word is the
\* punctuation character alone exactly when no non-punctuation word
\* character directly precedes it.
FollowsWordChar(i) ==
    /\ i > 1
    /\ is_word_char(text[i - 1])
    /\ ~is_breaking_char(text[i - 1])

PunctuationEndsWord ==
    \A i \in 1..Consumed :
        is_ascii_punctuation(text[i]) =>
            \E k \in 1..Len(tokens) :
                /\ tokens[k].kind = "Word"
                /\ spans[k].to = i
                /\ WordChars(tokens[k])[Len(WordChars(tokens[k]))] = text[i]
                /\ (Len(WordChars(tokens[k])) = 1) <=> ~FollowsWordChar(i)

PunctuationEndsWordWitness ==
    /\ text = <<PUNCT, LETTER, PUNCT>>
    /\ tokens = <<Word(Utf8(<<PUNCT>>)), Word(Utf8(<<LETTER, PUNCT>>))>>

\* C3 (as stated): every ASCII punctuation character of the consumed input
\* is a Word token of exactly one character.
PunctuationIsOwnToken ==
    \A i \in 1..Consumed :
        is_ascii_punctuation(text[i]) =>
            \E k \in 1..Len(tokens) :
                /\ tokens[k].kind = "Word"
                /\ spans[k].to = i
                /\ Len(WordChars(tokens[k])) = 1

\* C4: every Word token is non-empty, is the slice of the input its call
\* consumed, and has ASCII punctuation only as its last character; a Word
\* that starts with punctuation is that character alone, and a Word ends
\* either with punctuation or where no word character follows.
WordPunctuationOnlyLast ==
    \A k \in 1..Len(tokens) :
        tokens[k].kind = "Word" =>
            LET wc == WordChars(tokens[k])
                to == spans[k].to
            IN  /\ Len(wc) >= 1
                /\ to - Len(wc) >= spans[k].from
                /\ wc = SubSeq(text, to - Len(wc) + 1, to)
                /\ \A j \in 1..(Len(wc) - 1) : ~is_ascii_punctuation(wc[j])
                /\ is_ascii_punctuation(wc[1]) => Len(wc) = 1
                /\ \/ is_ascii_punctuation(wc[Len(wc)])
                   \/ to = Len(text)
                   \/ ~is_word_char(text[to + 1])

WordPunctuationOnlyLastWitness ==
    /\ text = <<LETTER, PUNCT, LETTER>>
    /\ tokens = <<Word(Utf8(<<LETTER, PUNCT>>)), Word(Utf8(<<LETTER>>))>>

\* C5: a zero-width space between two word characters splits them into two
\* consecutive Word tokens and gives no token of its own: no Word holds
\* U+200B, every token's call consumed a character other than U+200B, and a
\* Whitespace token's call consumed an ordinary whitespace character.
ZwspSplitsWords ==
    /\ \A k \in 1..Len(tokens) :
          /\ \A j \in 1..Len(tokens[k].word) : tokens[k].word[j][1] # ZWSP
          /\ \E i \in SpanOf(k) : text[i] # ZWSP
          /\ tokens[k].kind = "Whitespace" =>
                \E i \in SpanOf(k) : IsOrdinaryWhitespace(text[i])
    /\ \A i \in 2..(Len(text) - 1) :
          ( /\ text[i] = ZWSP
            /\ is_word_char(text[i - 1])
            /\ is_word_char(text[i + 1])
            /\ Consumed >= i + 1 ) =>
              \E k \in 1..(Len(tokens) - 1) :
                  /\ tokens[k].kind = "Word"
                  /\ tokens[k + 1].kind = "Word"
                  /\ spans[k].to = i - 1
                  /\ spans[k + 1].from = i - 1
                  /\ WordChars(tokens[k + 1])[1] = text[i + 1]

ZwspSplitsWordsWitness ==
    /\ text = <<LETTER, ZWSP, EMOJI>>
    /\ tokens = <<Word(Utf8(<<LETTER>>)), Word(Utf8(<<EMOJI>>))>>

WhitespaceCountsOrdinaryOnly ==
    \A k \in 1..Len(tokens) :
        tokens[k].kind = "Whitespace" =>
            /\ tokens[k].len >= 1
            /\ tokens[k].len =
                  Cardinality({i \in SpanOf(k) : IsOrdinaryWhitespace(text[i])})
            /\ \A i \in SpanOf(k) : IsOrdinaryWhitespace(text[i]) \/ text[i] = ZWSP

WhitespaceCountsOrdinaryOnlyWitness ==
    /\ text = <<ZWSP, SPACE, ZWSP>>
    /\ tokens = <<Whitespace(1)>>
    /\ inner = <<>>

\* C8: is_empty() is true exactly when there is no token left to process,
\* that is, exactly when next() (seen through peek()) returns None.
IsEmptyIffNoToken ==
    op = "peek" => (ret = None <=> is_empty(inner))

\* C9: every '\n' is emitted as its own NewLine and every '\r' as its own
\* CarriageReturn, one token per character and in input order (the calls'
\* spans follow one another); neither is ever inside the span of a
\* Whitespace token.
LineBreaksAreOwnTokens ==
    /\ \A i \in 1..Consumed :
          /\ text[i] = LF => \E k \in 1..Len(tokens) :
                                tokens[k] = NewLine /\ spans[k].to = i
          /\ text[i] = CR => \E k \in 1..Len(tokens) :
                                tokens[k] = CarriageReturn /\ spans[k].to = i
    /\ \A k \in 1..Len(tokens) :
          /\ tokens[k] = NewLine => text[spans[k].to] = LF
          /\ tokens[k] = CarriageReturn => text[spans[k].to] = CR
          /\ tokens[k].kind \in {"NewLine", "CarriageReturn"} =>
                \A i \in SpanOf(k) \ {spans[k].to} : text[i] = ZWSP
          /\ tokens[k].kind = "Whitespace" =>
                \A i \in SpanOf(k) : text[i] \notin {LF, CR}
          /\ spans[k].from < spans[k].to
          /\ k < Len(tokens) => spans[k].to = spans[k + 1].from

LineBreaksAreOwnTokensWitness ==
    /\ text = <<SPACE, CR, SPACE>>
    /\ tokens = <<Whitespace(1), CarriageReturn, Whitespace(1)>>

\* C10: the non-breaking space is a word character: every consumed U+00A0
\* is inside a Word token, the Word goes on when a word character follows it,
\* and no Whitespace token's span holds it.
NbspIsWordChar ==
    /\ \A i \in 1..Consumed :
          text[i] = NBSP =>
              \E k \in 1..Len(tokens) :
                  /\ tokens[k].kind = "Word"
                  /\ i \in SpanOf(k)
                  /\ \E j \in 1..Len(WordChars(tokens[k])) :
                        /\ WordChars(tokens[k])[j] = NBSP
                        /\ spans[k].to - Len(WordChars(tokens[k])) + j = i
                  /\ (i < Len(text) /\ is_word_char(text[i + 1])) =>
                        (i + 1) \in SpanOf(k)
    /\ \A k \in 1..Len(tokens) :
          tokens[k].kind = "Whitespace" =>
              \A i \in SpanOf(k) : text[i] # NBSP

NbspIsWordCharWitness ==
    /\ text = <<SPACE, NBSP, LETTER>>
    /\ tokens = <<Whitespace(1), Word(Utf8(<<NBSP, LETTER>>))>>

\* C11: remaining() never increases; a next() that returns a token strictly
\* decreases it; a next() that returns None leaves it 0; and no more tokens
\* are emitted than the input has characters.
TokenizationTerminates ==
    [][ /\ remaining(inner') <= remaining(inner)
        /\ (op' = "next" /\ ret' # None) => remaining(inner') < remaining(inner)
        /\ (op' = "next" /\ ret' = None) => remaining(inner') = 0
        /\ Len(tokens') <= Len(text) ]_vars

TokenizationTerminatesWitness ==
    /\ op = "next"
    /\ ret = None
    /\ Len(text) >= 2
    /\ Len(tokens) = Len(text)
    /\ remaining(inner) = 0

\* C16: a next() on a rest that is empty or made only of U+200B returns
\* None, emits no token and leaves nothing unconsumed; a text made only of
\* U+200B never yields a token.
OnlyZwsp(s) == \A i \in 1..Len(s) : s[i] = ZWSP

TrailingZwspYieldsNone ==
    [][ /\ (op' = "next" /\ OnlyZwsp(inner)) =>
              /\ ret' = None
              /\ tokens' = tokens
              /\ inner' = <<>>
        /\ OnlyZwsp(text) => tokens' = <<>> ]_vars

TrailingZwspYieldsNoneWitness ==
    /\ text = <<LETTER, ZWSP, ZWSP>>
    /\ op = "next"
    /\ ret = None
    /\ inner = <<>>
    /\ tokens = <<Word(Utf8(<<LETTER>>))>>

\* C17: the bytes of every Word token are whole characters (no code unit of
\* a multi-byte character is cut off) and are the bytes of a contiguous
\* slice of the input; a Word whose call reached the end of the input holds
\* every character from its first one to the end and leaves remaining() = 0.
FirstNonZwsp(k) ==
    CHOOSE i \in SpanOf(k) :
        text[i] # ZWSP /\ \A j \in SpanOf(k) : j < i => text[j] = ZWSP

WordsOnCharBoundaries ==
    \A k \in 1..Len(tokens) :
        tokens[k].kind = "Word" =>
            LET wc == WordChars(tokens[k])
                to == spans[k].to
            IN  /\ tokens[k].word = Utf8(wc)
                /\ tokens[k].word = Utf8(SubSeq(text, to - Len(wc) + 1, to))
                /\ to - Len(wc) + 1 = FirstNonZwsp(k)
                /\ StrLen(wc) = Len(tokens[k].word)
                /\ (k = Len(tokens) /\ to = Len(text)) => remaining(inner) = 0

WordsOnCharBoundariesWitness ==
    /\ text = <<ZWSP, LETTER, EMOJI>>
    /\ tokens = <<Word(Utf8(<<LETTER, EMOJI>>))>>
    /\ remaining(inner) = 0

\* C18: once next() has returned None, every later next() and peek() returns
\* None, is_empty() stays true and remaining() stays 0.
ExhaustionIsPermanent ==
    []( (op = "next" /\ ret = None) =>
          [](ret = None /\ is_empty(inner) /\ remaining(inner) = 0) )

ExhaustionIsPermanentWitness ==
    /\ op = "peek"
    /\ prevOp = "next"
    /\ ret = None
    /\ prevRet = None
    /\ tokens # <<>>
    /\ is_empty(inner)

\* C14: text_style(ts) followed by build() gives a style whose text_style
\* equals ts, whatever colours the builder held before, also when ts leaves
\* a colour unset.
TextStyleIsCopied ==
    (bcall.name = "build" /\ bprev.name = "text_style") =>
        built[1].text_style = bprev.arg

\* C19: text_color changes only the text colour, background_color only the
\* background colour and alignment only the alignment; when only these
\* setters were called, build() returns the value last given to each setter,
\* LeftAligned and no colour where none was called, and the font of new().
SettersChangeOnlyTheirOwn ==
    [][ /\ bcall'.name = "text_color" =>
              /\ builder'.text_style_builder.text_color = bcall'.arg
              /\ builder'.text_style_builder.background_color =
                    builder.text_style_builder.background_color
              /\ builder'.text_style_builder.font = builder.text_style_builder.font
              /\ builder'.alignment = builder.alignment
        /\ bcall'.name = "background_color" =>
              /\ builder'.text_style_builder.background_color = bcall'.arg
              /\ builder'.text_style_builder.text_color =
                    builder.text_style_builder.text_color
              /\ builder'.text_style_builder.font = builder.text_style_builder.font
              /\ builder'.alignment = builder.alignment
        /\ bcall'.name = "alignment" =>
              /\ builder'.alignment = bcall'.arg
              /\ builder'.text_style_builder = builder.text_style_builder
        /\ (bcall'.name = "build" /\ ~lastSet.text_style_called) =>
              built'[1] = [text_style |-> [font |-> lastSet.font,
                                        text_color |-> lastSet.text_color,
                                        background_color |-> lastSet.background_color],
                        alignment |-> lastSet.alignment] ]_vars

SettersChangeOnlyTheirOwnWitness ==
    /\ bcall.name = "build"
    /\ bprev.name = "text_color"
    /\ ~lastSet.text_style_called
    /\ built = <<[text_style |-> [font |-> "Font6x6", text_color |-> "On",
                                  background_color |-> "Off"],
                  alignment |-> RightAligned]>>

(***************************************************************************)
(* Vocabulary of the rendering properties.                                 *)
(***************************************************************************)
StyledBounds == styled.text_box.bounds
StyledText == styled.text_box.text

IsPrefix(a, b) == Len(a) <= Len(b) /\ SubSeq(b, 1, Len(a)) = a

\* The pixel width of a text that is one line: the sum of its token widths
RECURSIVE LineWidth(_)
LineWidth(parser) ==
    LET r == ParserNext(parser)
    IN  IF r.token = None THEN 0 ELSE TokenWidth(r.token) + LineWidth(r.inner)

HasWord(t) == \E i \in 1..Len(t) : is_word_char(t[i])

\* C12: a right-aligned pixel iterator pulled to its end has rendered a
\* single line of width w that fits the rectangle of width W from x-offset
\* W - w up to the rectangle's right edge.
RightAlignedRendersFlushRight ==
    \A i \in Iterators :
        ( /\ pulls[i] = "none"
          /\ styled.style.alignment = RightAligned
          /\ HasWord(StyledText)
          /\ MeasureLines(StyledText, StyledBounds.size.width) = 1
          /\ LineWidth(parse(StyledText)) <= StyledBounds.size.width
          /\ StyledBounds.size.height >= CharHeight ) =>
            LET right == StyledBounds.top_left.x + StyledBounds.size.width
                w == LineWidth(parse(StyledText))
            IN  /\ yielded[i] # <<>>
                /\ \A k \in 1..Len(yielded[i]) :
                      /\ yielded[i][k].x >= right - w
                      /\ yielded[i][k].x + CharWidth <= right
                /\ \E k \in 1..Len(yielded[i]) :
                      yielded[i][k].x + CharWidth = right

FitToTextHeight ==
    supplied.style.height_mode = "FitToText" =>
        /\ StyledBounds.size.height =
              MeasureLines(supplied.text_box.text, supplied.text_box.bounds.size.width)
                  * CharHeight
        /\ supplied.text_box.text # <<>> => StyledBounds.size.height > 0
        /\ StyledText = supplied.text_box.text
        /\ StyledBounds.top_left = supplied.text_box.bounds.top_left
        /\ StyledBounds.size.width = supplied.text_box.bounds.size.width
        /\ styled.style = supplied.style
        /\ \A i \in Iterators :
              (pulls[i] = "none" /\ styled.style.alignment = LeftAligned) =>
                  /\ iters[i][1].state.parser = <<>>
                  /\ iters[i][1].state.word = <<>>
                  /\ \A k \in 1..Len(yielded[i]) :
                        /\ yielded[i][k].y >= StyledBounds.top_left.y
                        /\ yielded[i][k].y + CharHeight <=
                              StyledBounds.top_left.y + StyledBounds.size.height

FitToTextHeightWitness ==
    /\ supplied.style.height_mode = "FitToText"
    /\ supplied.text_box.bounds.size.height = 0
    /\ supplied.text_box.text # <<>>
    /\ StyledBounds.size.height = 2 * CharHeight
    /\ pulls[1] = "none"
    /\ Len(yielded[1]) >= 2

====
